---- MODULE Spec2Model ----
(***************************************************************************)
(* Model of the rustey runtime loop (src/src/lib.rs): the loop thread of   *)
(* run, the subscription workers it starts and stops, the command tasks,   *)
(* the input poller, and the mpsc channel that joins them.                 *)
(***************************************************************************)
EXTENDS Integers, Sequences, FiniteSets, TLC

\* ---------------------------------------------------------------- bounds
\* Longest subscription list the application returns.
MaxLen == 2
\* Total number of send calls made by all producers together.
MaxSends == 2
\* Total number of worker threads (subscriptions, commands) that end.
MaxEnds == 1
\* Number of update and view calls that change the model.
MaxChanges == 1

\* ------------------------------------------------------------ Option<T>
None == <<>>
Some(x) == <<x>>

\* --------------------------------------------------- application values
\* Subscription descriptors: a concrete type and a value of that type.
Descs ==
  { [ty |-> "Timer", v |-> 1], [ty |-> "Timer", v |-> 2], [ty |-> "Key", v |-> 1] }

\* Vec<Box<dyn Subscription<M>>> of bounded length.
Subscriptions == UNION { [1..n -> Descs] : n \in 0..MaxLen }

\* The application's model T: what the application wants to be subscribed to.
Models == [wanted : Subscriptions]

\* Raw terminal events.
Events == {"key", "ign"}

\* Message<T>
UserEvent(m) == [tag |-> "UserEvent", v |-> m]
CrosstermEvent(e) == [tag |-> "CrosstermEvent", v |-> e]

\* Cmd<T> = Option<Box<dyn Command<T>>>
Cmds == {None, Some("cmd")}

\* RusteyApp::subscriptions
subscriptions(m) == m.wanted

\* RusteyApp::map_event: this application ignores the event "ign".
map_event(m, event) == IF event = "ign" THEN None ELSE Some("k")

\* ------------------------------------------------------ erased equality
\* Any::downcast_ref::<S>() on a descriptor: Some when its type is S.
downcast_ref(other, S) == IF other.ty = S THEN Some(other) ELSE None

\* DynEq::equals_a of the blanket impl
equals_a(self, other) == downcast_ref(other, self.ty) = Some(self)

\* PartialEq for dyn Subscription<T>
Subscription_eq(self, other) == equals_a(self, other)

\* PartialEq for SubRec<T>
SubRec_eq(self, other) == Subscription_eq(self.sub, other.sub)

\* ---------------------------------------------------------- QuitFlag
QuitFlag_new == FALSE
raise(flag) == TRUE
\* raised that never sees the flag.
raised_never(flag) == FALSE
\* raised that always sees a flag.
raised_always(flag) == TRUE
raised(flag) == flag

\* ------------------------------------------------------------- SubRec
\* thread: Option<JoinHandle>.  starts, raises, sender, state and died_at
\* record what happened to the handle: how often a worker was spawned for
\* it, how often stop raised its flag, whether its worker was given a
\* sender, what the worker thread is doing, and how many messages had been
\* enqueued when it panicked (-1: it has not).
SubRec_new(sub) ==
  [sub |-> sub, halt_flag |-> QuitFlag_new, thread |-> None,
   starts |-> 0, raises |-> 0, sender |-> FALSE, state |-> "unstarted",
   died_at |-> -1]

\* run that spawns no worker.
SubRec_run_nospawn(rec) == rec

SubRec_run(rec) ==
  [rec EXCEPT !.thread = Some("JoinHandle"), !.starts = @ + 1,
              !.sender = TRUE, !.state = "running"]

\* stop that leaves the flag alone.
SubRec_stop_noop(rec) == rec

SubRec_stop(rec) ==
  [rec EXCEPT !.halt_flag = raise(@), !.raises = @ + 1]

\* ----------------------------------------------------------- Vec helpers
\* position that finds no match for a handle whose worker has died.
position_live(new_subs, sub) ==
  LET hits == { i \in 1..Len(new_subs) : SubRec_eq(sub, new_subs[i]) }
  IN IF hits = {} \/ sub.state = "panicked" THEN 0
     ELSE CHOOSE i \in hits : \A j \in hits : i <= j

\* Iterator::position: 1-based index of the first match, 0 for None.
position(new_subs, sub) ==
  LET hits == { i \in 1..Len(new_subs) : SubRec_eq(sub, new_subs[i]) }
  IN IF hits = {} THEN 0 ELSE CHOOSE i \in hits : \A j \in hits : i <= j

\* swap_remove that removes nothing.
swap_remove_keep(v, i) == v

\* Vec::swap_remove: the last element takes the place of the removed one.
swap_remove(v, i) ==
  LET n == Len(v)
  IN IF i = n THEN SubSeq(v, 1, n - 1)
     ELSE [k \in 1..(n - 1) |-> IF k = i THEN v[n] ELSE v[k]]

\* Vec<SubRec> from a subscription list (map(SubRec::new).collect())
collect_new(list) == [i \in 1..Len(list) |-> SubRec_new(list[i])]

\* subs.retain_mut(...) of run: ss are the handle ids still to visit, hs
\* the table of all handles.  Gives the kept ids, what is left of new_subs
\* and the table with the unmatched handles stopped.
RECURSIVE retain_mut(_, _, _)
retain_mut(ss, new_subs, hs) ==
  IF ss = <<>>
  THEN [subs |-> <<>>, new_subs |-> new_subs, handles |-> hs]
  ELSE LET sub == Head(ss)
           pos == position(new_subs, hs[sub])
       IN IF pos # 0
          THEN LET r == retain_mut(Tail(ss), swap_remove(new_subs, pos), hs)
               IN [r EXCEPT !.subs = <<sub>> \o @]
          ELSE retain_mut(Tail(ss), new_subs,
                          [hs EXCEPT ![sub] = SubRec_stop(@)])

\* new_subs.iter_mut().for_each(|s| s.run(..))
run_all(new_subs) == [i \in 1..Len(new_subs) |-> SubRec_run(new_subs[i])]

\* ------------------------------------------------------------- channel
\* send that puts the message at the head.
send_front(ch, m) == <<m>> \o ch

\* mpsc::Sender::send: append at the tail.
send(ch, m) == Append(ch, m)

\* --------------------------------------------------------------- state
VARIABLES
  pc,                 \* where the loop thread is in run
  model,              \* the application's model
  cmd,                \* the command to dispatch next
  quit_program,       \* the loop's quit flag
  chan,               \* messages in the channel, oldest first
  raw,                \* the Message recv returned
  msg,                \* the Option<M> the match gave
  new_subscriptions,  \* what subscriptions returned in the latest pass
  subs,               \* ids of the running handles, in Vec order
  handles,            \* every SubRec ever started, by id
  tasks,              \* the command threads, by id
  poller,             \* the input poller thread
  log,                \* every message ever enqueued, in enqueue order
  nsent,              \* number of send calls so far
  nrecv,              \* number of messages recv has returned
  nended,             \* number of worker threads that have ended
  nchanged,           \* number of update and view calls that changed the model
  updates,            \* the messages passed to update, in call order
  renders,            \* number of draw calls so far
  passes,             \* number of reconciliation passes so far
  old_subs,           \* subs as it was before the latest pass
  sinceNone,          \* an event mapped to None and no draw followed yet
  atQuit,             \* the counters when update raised the quit flag
  ncmds,              \* number of present commands init and update returned
  draw_err,           \* the latest draw call returned Err
  late,               \* places in log of the messages sent after a stop
  user_sender         \* run holds its own sender of the channel

vars ==
  << pc, model, cmd, quit_program, chan, raw, msg, new_subscriptions, subs,
     handles, tasks, poller, log, nsent, nrecv, nended, nchanged, updates,
     renders, passes, old_subs, sinceNone, atQuit, ncmds, draw_err, late,
     user_sender >>

loopVars ==
  << pc, model, cmd, quit_program, raw, msg, new_subscriptions, subs, nrecv,
     nchanged, updates, renders, passes, old_subs, sinceNone, atQuit, ncmds,
     draw_err, user_sender >>

\* The receiver lives in run's frame: it is gone once run has returned.
receiverAlive == pc \notin {"done", "error", "panic"}

Counters ==
  [renders |-> renders, nrecv |-> nrecv, updates |-> Len(updates),
   passes |-> passes]

\* State at the entry of run.
Init ==
  /\ pc = "init"
  /\ model = [wanted |-> <<>>]
  /\ cmd = None
  /\ quit_program = QuitFlag_new
  /\ chan = <<>>
  /\ raw = None
  /\ msg = None
  /\ new_subscriptions = <<>>
  /\ subs = <<>>
  /\ handles = <<>>
  /\ tasks = <<>>
  /\ poller = "unstarted"
  /\ log = <<>>
  /\ nsent = 0
  /\ nended = 0
  /\ nrecv = 0
  /\ nchanged = 0
  /\ updates = <<>>
  /\ renders = 0
  /\ passes = 0
  /\ old_subs = <<>>
  /\ sinceNone = FALSE
  /\ atQuit = None
  /\ ncmds = 0
  /\ draw_err = FALSE
  /\ late = {}
  /\ user_sender = FALSE

\* ------------------------------------------------------- the loop thread
\* run, up to the loop: init, the channel, the poller, the initial handles.
RunInit ==
  /\ pc = "init"
  /\ \E m \in Models, c \in Cmds :
       /\ model' = m
       /\ cmd' = c
       /\ ncmds' = IF c # None THEN 1 ELSE 0
       /\ new_subscriptions' = subscriptions(m)
       /\ handles' = run_all(collect_new(subscriptions(m)))
       /\ subs' = [i \in 1..Len(subscriptions(m)) |-> i]
  /\ quit_program' = QuitFlag_new
  /\ chan' = <<>>
  /\ poller' = "running"
  /\ pc' = "handle"
  /\ user_sender' = TRUE
  /\ UNCHANGED << raw, msg, tasks, log, nsent, nrecv, nended, nchanged,
                  updates, renders, passes, old_subs, sinceNone, atQuit,
                  draw_err, late >>

\* A dup that hands the sender over instead of cloning it.
after_dup_moved(s) == FALSE

\* Sender::dup takes &self and clones: the caller still holds its sender.
after_dup(s) == s

\* handle(cmd, user_sender.dup())
handle(c, ts) == IF c # None THEN Append(ts, "running") ELSE ts

HandleCmd ==
  /\ pc = "handle"
  /\ tasks' = handle(cmd, tasks)
  /\ cmd' = None
  /\ pc' = "draw"
  /\ user_sender' = after_dup(user_sender)
  /\ UNCHANGED << model, quit_program, chan, raw, msg, new_subscriptions,
                  subs, handles, poller, log, nsent, nrecv, nended, nchanged,
                  updates, renders, passes, old_subs, sinceNone, atQuit,
                  ncmds, draw_err, late >>

\* The ? on the result of terminal.draw: go on, or return the error.
after_draw_ignoring(ok) == "recv"

after_draw(ok) == IF ok THEN "recv" ELSE "error"

\* terminal.draw(|f| app.view(f, &mut model))?: view has the model mutably
\* and may change it; the draw succeeds, or fails and run returns Err,
\* dropping its locals.
Draw ==
  /\ pc = "draw"
  /\ renders' = renders + 1
  /\ sinceNone' = FALSE
  /\ \E m \in Models :
       /\ m # model => nchanged < MaxChanges
       /\ model' = m
       /\ nchanged' = IF m # model THEN nchanged + 1 ELSE nchanged
  /\ \E ok \in BOOLEAN :
       /\ pc' = after_draw(ok)
       /\ draw_err' = ~ok
       /\ chan' = IF pc' = "error" THEN <<>> ELSE chan
  /\ user_sender' = (pc' # "error" /\ user_sender)
  /\ UNCHANGED << cmd, quit_program, raw, msg, new_subscriptions, subs,
                  handles, tasks, poller, log, nsent, nrecv, nended, updates,
                  passes, old_subs, atQuit, ncmds, late >>

\* match msg { CrosstermEvent(e) => map_event(&model, e), UserEvent(m) => Some(m) }
match_msg(m, message) ==
  IF message.tag = "CrosstermEvent" THEN map_event(m, message.v)
  ELSE Some(message.v)

\* The senders of the channel that exist: the one run holds, the one
\* moved into the poller, and the dup moved into each worker and command
\* thread, dropped when the thread ends.
liveSenders ==
  (IF user_sender THEN 1 ELSE 0) + (IF poller = "running" THEN 1 ELSE 0)
  + Cardinality({ h \in DOMAIN handles : handles[h].state = "running" })
  + Cardinality({ t \in DOMAIN tasks : tasks[t] = "running" })

\* Receiver::recv: the oldest message, an error when the channel is empty
\* and every sender is dropped, and a wait otherwise.
recv(ch, senders) ==
  IF ch # <<>> THEN "Ok" ELSE IF senders = 0 THEN "Err" ELSE "blocks"

\* A receive that drops the messages sent after a stop.
Recv_filtering ==
  /\ pc = "recv"
  /\ recv(chan, liveSenders) # "blocks"
  /\ IF recv(chan, liveSenders) = "Err"
     THEN /\ pc' = "panic"
          /\ UNCHANGED << raw, chan, nrecv, msg, sinceNone >>
     ELSE /\ raw' = Some(Head(chan))
          /\ chan' = Tail(chan)
          /\ nrecv' = nrecv + 1
          /\ msg' = IF nrecv + 1 \in late THEN None
                    ELSE match_msg(model, Head(chan))
          /\ sinceNone' = (msg' = None)
          /\ pc' = "update"
  /\ UNCHANGED << model, cmd, quit_program, new_subscriptions, subs, handles,
                  tasks, poller, log, nsent, nended, nchanged, updates,
                  renders, passes, old_subs, atQuit, ncmds, draw_err, late,
                  user_sender >>

\* receiver.recv().unwrap() and the match on what it returned: blocks while
\* the channel is empty, takes the oldest message, panics on an error.
Recv ==
  /\ pc = "recv"
  /\ recv(chan, liveSenders) # "blocks"
  /\ IF recv(chan, liveSenders) = "Err"
     THEN /\ pc' = "panic"
          /\ UNCHANGED << raw, chan, nrecv, msg, sinceNone >>
     ELSE /\ raw' = Some(Head(chan))
          /\ chan' = Tail(chan)
          /\ nrecv' = nrecv + 1
          /\ msg' = match_msg(model, Head(chan))
          /\ sinceNone' = (msg' = None)
          /\ pc' = "update"
  /\ UNCHANGED << model, cmd, quit_program, new_subscriptions, subs, handles,
                  tasks, poller, log, nsent, nended, nchanged, updates,
                  renders, passes, old_subs, atQuit, ncmds, draw_err, late,
                  user_sender >>

\* An else branch that hands out a command.
no_message_cmd_stale == Some("cmd")

\* The else branch of that if let: cmd = None.
no_message_cmd == None

\* cmd = if let Some(msg) = msg { app.update(..) } else { None }
\* update may change the model, raise the quit flag and return a command.
Update ==
  /\ pc = "update"
  /\ IF msg # None
     THEN \E m \in Models, q \in BOOLEAN, c \in Cmds :
            /\ m # model => nchanged < MaxChanges
            /\ model' = m
            /\ nchanged' = IF m # model THEN nchanged + 1 ELSE nchanged
            /\ quit_program' = IF q THEN raise(quit_program) ELSE quit_program
            /\ cmd' = c
            /\ ncmds' = IF c # None THEN ncmds + 1 ELSE ncmds
            /\ updates' = Append(updates, msg[1])
            /\ atQuit' = IF q THEN Some([Counters EXCEPT !.updates = @ + 1])
                         ELSE atQuit
     ELSE /\ cmd' = no_message_cmd
          /\ UNCHANGED << model, quit_program, nchanged, ncmds, updates,
                          atQuit >>
  /\ msg' = None
  /\ raw' = None
  /\ pc' = "reconcile"
  /\ UNCHANGED << chan, new_subscriptions, subs, handles, tasks, poller, log,
                  nsent, nrecv, nended, renders, passes, old_subs, sinceNone,
                  draw_err, late, user_sender >>

\* A reconciliation that leaves the handles as they are.
reconcile_none(ss, hs, wanted) == [subs |-> ss, handles |-> hs]

\* The reconciliation of run: subscriptions, retain_mut, run, append.
reconcile(ss, hs, wanted) ==
  LET r == retain_mut(ss, collect_new(wanted), hs)
      started == run_all(r.new_subs)
  IN [subs |-> r.subs \o [i \in 1..Len(started) |-> Len(hs) + i],
      handles |-> r.handles \o started]

Reconcile ==
  /\ pc = "reconcile"
  /\ new_subscriptions' = subscriptions(model)
  /\ LET r == reconcile(subs, handles, subscriptions(model))
     IN /\ subs' = r.subs
        /\ handles' = r.handles
  /\ old_subs' = subs
  /\ passes' = passes + 1
  /\ pc' = "quit"
  /\ user_sender' = after_dup(user_sender)
  /\ UNCHANGED << model, cmd, quit_program, chan, raw, msg, tasks, poller,
                  log, nsent, nrecv, nended, nchanged, updates, renders,
                  sinceNone, atQuit, ncmds, draw_err, late >>

\* A return that first joins the thread of every handle whose flag is
\* raised.
QuitCheck_joining ==
  /\ pc = "quit"
  /\ \A h \in DOMAIN handles :
       handles[h].halt_flag => handles[h].state # "running"
  /\ IF raised(quit_program)
     THEN pc' = "done" /\ chan' = <<>>
     ELSE pc' = "handle" /\ chan' = chan
  /\ user_sender' = (pc' # "done" /\ user_sender)
  /\ UNCHANGED << model, cmd, quit_program, raw, msg, new_subscriptions, subs,
                  handles, tasks, poller, log, nsent, nrecv, nended, nchanged,
                  updates, renders, passes, old_subs, sinceNone, atQuit,
                  ncmds, draw_err, late >>

\* if quit_program.raised() { break; } and, after the loop,
\* ratatui::restore(); Ok(()): run returns and its locals are dropped.
\* SubRec has no Drop: dropping subs leaves flags and workers as they are.
QuitCheck ==
  /\ pc = "quit"
  /\ IF raised(quit_program)
     THEN pc' = "done" /\ chan' = <<>>
     ELSE pc' = "handle" /\ chan' = chan
  /\ user_sender' = (pc' # "done" /\ user_sender)
  /\ UNCHANGED << model, cmd, quit_program, raw, msg, new_subscriptions, subs,
                  handles, tasks, poller, log, nsent, nrecv, nended, nchanged,
                  updates, renders, passes, old_subs, sinceNone, atQuit,
                  ncmds, draw_err, late >>

\* ------------------------------------------------------------ producers
\* A send call by any producer: enqueued while the receiver exists, an
\* ignored error afterwards (let _ = sender.send(..)).
Enqueue(m) ==
  /\ nsent < MaxSends
  /\ nsent' = nsent + 1
  /\ IF receiverAlive
     THEN chan' = send(chan, m) /\ log' = Append(log, m)
     ELSE UNCHANGED << chan, log >>

\* The body of a subscription sends a message (Sender::send).
SubSend(h) ==
  /\ handles[h].state = "running"
  /\ Enqueue(UserEvent("s"))
  /\ late' = IF raised(handles[h].halt_flag) /\ receiverAlive
             THEN late \cup {Len(log) + 1} ELSE late
  /\ UNCHANGED << handles, tasks, poller, nended >>
  /\ UNCHANGED loopVars

\* The body of a subscription sees its flag raised (alive.raised()) and
\* returns: the worker thread ends.
SubExit(h) ==
  /\ handles[h].state = "running"
  /\ raised(handles[h].halt_flag)
  /\ nended < MaxEnds
  /\ nended' = nended + 1
  /\ handles' = [handles EXCEPT ![h].state = "exited"]
  /\ UNCHANGED << chan, log, nsent, tasks, poller, late >>
  /\ UNCHANGED loopVars

\* The body of a subscription panics: the worker thread dies.
SubPanic(h) ==
  /\ handles[h].state = "running"
  /\ nended < MaxEnds
  /\ nended' = nended + 1
  /\ handles' = [handles EXCEPT ![h].state = "panicked",
                                ![h].died_at = Len(log)]
  /\ UNCHANGED << chan, log, nsent, tasks, poller, late >>
  /\ UNCHANGED loopVars

\* The body of a command sends a message.
CmdSend(t) ==
  /\ tasks[t] = "running"
  /\ Enqueue(UserEvent("c"))
  /\ UNCHANGED << handles, tasks, poller, nended, late >>
  /\ UNCHANGED loopVars

\* The body of a command returns.
CmdExit(t) ==
  /\ tasks[t] = "running"
  /\ nended < MaxEnds
  /\ nended' = nended + 1
  /\ tasks' = [tasks EXCEPT ![t] = "exited"]
  /\ UNCHANGED << chan, log, nsent, handles, poller, late >>
  /\ UNCHANGED loopVars

\* The body of a command panics: the command thread dies.
CmdPanic(t) ==
  /\ tasks[t] = "running"
  /\ nended < MaxEnds
  /\ nended' = nended + 1
  /\ tasks' = [tasks EXCEPT ![t] = "panicked"]
  /\ UNCHANGED << chan, log, nsent, handles, poller, late >>
  /\ UNCHANGED loopVars

\* start_event_thread: the poller forwards a raw event.
PollerSend ==
  /\ poller = "running"
  /\ \E e \in Events : Enqueue(CrosstermEvent(e))
  /\ UNCHANGED << handles, tasks, poller, nended, late >>
  /\ UNCHANGED loopVars

\* event::read().unwrap() in the poller: a read error panics the thread.
PollerPanic ==
  /\ poller = "running"
  /\ nended < MaxEnds
  /\ nended' = nended + 1
  /\ poller' = "panicked"
  /\ UNCHANGED << chan, log, nsent, handles, tasks, late >>
  /\ UNCHANGED loopVars

LoopNext ==
  \/ RunInit
  \/ HandleCmd
  \/ Draw
  \/ Recv
  \/ Update
  \/ Reconcile
  \/ QuitCheck

Next ==
  \/ LoopNext
  \/ \E h \in DOMAIN handles : SubSend(h)
  \/ \E h \in DOMAIN handles : SubExit(h)
  \/ \E h \in DOMAIN handles : SubPanic(h)
  \/ \E t \in DOMAIN tasks : CmdSend(t)
  \/ \E t \in DOMAIN tasks : CmdExit(t)
  \/ \E t \in DOMAIN tasks : CmdPanic(t)
  \/ PollerSend
  \/ PollerPanic

Spec == Init /\ [][Next]_vars

\* The runs of Spec in which the producers make one send call fewer.
Short == nsent' < MaxSends

ShortNext ==
  \/ LoopNext
  \/ \E h \in DOMAIN handles : SubSend(h) /\ Short
  \/ \E h \in DOMAIN handles : SubExit(h)
  \/ \E h \in DOMAIN handles : SubPanic(h)
  \/ \E t \in DOMAIN tasks : CmdSend(t) /\ Short
  \/ \E t \in DOMAIN tasks : CmdExit(t)
  \/ \E t \in DOMAIN tasks : CmdPanic(t)
  \/ PollerSend /\ Short
  \/ PollerPanic

ShortSpec == Init /\ [][ShortNext]_vars

\* ============================================================ properties
Ids(s) == { s[i] : i \in DOMAIN s }

\* The descriptor of handle h.
descOf(h) == handles[h].sub

\* Descriptor d is equal to a descriptor of the list.
InList(d, list) == \E j \in DOMAIN list : equals_a(d, list[j])

\* Descriptor d is equal to the descriptor of a handle that was running
\* before the latest pass.
WasRunning(d) == \E h \in Ids(old_subs) : equals_a(descOf(h), d)

\* The handles the latest pass (or the initialization) added.
NewIds == Ids(subs) \ Ids(old_subs)

\* A worker was started for handle h and its flag tells it to go on.
RunningWorker(h) ==
  /\ handles[h].starts >= 1
  /\ ~raised(handles[h].halt_flag)

\* The concrete descriptors of the scenarios.
DescA == [ty |-> "Timer", v |-> 1]
DescB == [ty |-> "Timer", v |-> 2]
DescC == [ty |-> "Key", v |-> 1]

DescsOf(s) == [i \in DOMAIN s |-> descOf(s[i])]

\* C1: after a reconciliation pass, every handle that was running before
\* it and whose descriptor is equal to a descriptor of the newly desired
\* list is still in the running set with its flag unraised, and the pass
\* started no new worker for that descriptor.
C1_EqualHandleKept ==
  passes >= 1 =>
    \A h \in Ids(old_subs) :
      InList(descOf(h), new_subscriptions) =>
        /\ h \in Ids(subs)
        /\ ~raised(handles[h].halt_flag)
        /\ \A k \in NewIds : ~equals_a(descOf(k), descOf(h))

\* C2: after a reconciliation pass, every element of the newly desired list
\* that is equal to no descriptor of the previously running handles has its
\* own new handle: as many new handles carry the descriptor as list elements
\* do, each started exactly once, with an unraised flag and a sender.
C2_NewHandleStartedOnce ==
  passes >= 1 =>
    \A j \in DOMAIN new_subscriptions :
      LET d == new_subscriptions[j]
          mine == { k \in NewIds : equals_a(descOf(k), d) }
      IN ~WasRunning(d) =>
           /\ Cardinality(mine) =
                Cardinality({ i \in DOMAIN new_subscriptions :
                                equals_a(new_subscriptions[i], d) })
           /\ \A k \in mine :
                /\ handles[k].starts = 1
                /\ handles[k].thread # None
                /\ ~raised(handles[k].halt_flag)
                /\ handles[k].sender

\* A pass found a new descriptor next to a handle it kept.
C2_Witness ==
  /\ passes >= 1
  /\ \E j \in DOMAIN new_subscriptions : ~WasRunning(new_subscriptions[j])
  /\ Ids(old_subs) \cap Ids(subs) # {}

\* C3: a reconciliation pass raises the flag of every running handle whose
\* descriptor is equal to none of the newly desired list, exactly once, and
\* removes it from the running set; a raised flag stays raised and is
\* never raised again.
C3_StoppedOnceForGood ==
  [][ /\ (pc = "reconcile" /\ pc' # "reconcile") =>
           \A h \in Ids(subs) :
             ~InList(descOf(h), subscriptions(model)) =>
               /\ raised(handles'[h].halt_flag)
               /\ handles'[h].raises = 1
               /\ h \notin Ids(subs')
      /\ \A h \in DOMAIN handles :
           raised(handles[h].halt_flag) =>
             /\ h \in DOMAIN handles'
             /\ raised(handles'[h].halt_flag)
             /\ handles'[h].raises = handles[h].raises
    ]_vars

\* A handle stopped by an earlier pass has seen a later pass.
C3_Witness ==
  /\ passes >= 2
  /\ \E h \in DOMAIN handles :
       /\ raised(handles[h].halt_flag)
       /\ h \notin Ids(old_subs)

\* Number of elements of the list equal to d.
Count(d, list) == Cardinality({ i \in DOMAIN list : equals_a(d, list[i]) })

\* The loop has initialized or made a pass and has not called the
\* application since.
AfterPass == pc \in {"handle", "draw", "quit", "done"}

\* C4: after the initialization and after every reconciliation pass, the
\* descriptors of the running handles are those of the list subscriptions
\* returns for the current model, each as often as the list has it.
C4_RunningIsDesired ==
  AfterPass =>
    \A d \in Descs : Count(d, DescsOf(subs)) = Count(d, subscriptions(model))

\* Running {A, B}, desired {B, C}: running {B, C}.
C4_Witness ==
  /\ pc = "quit"
  /\ DescsOf(old_subs) = << DescA, DescB >>
  /\ new_subscriptions = << DescB, DescC >>
  /\ DescsOf(subs) = << DescB, DescC >>

\* C5: no two handles of the running set with equal descriptors both have
\* a running worker.
C5_OneWorkerPerDescriptor ==
  \A i, j \in DOMAIN subs :
    (i # j /\ equals_a(descOf(subs[i]), descOf(subs[j]))) =>
      ~(RunningWorker(subs[i]) /\ RunningWorker(subs[j]))

\* C6: once update has raised the quit flag the loop makes exactly one more
\* reconciliation pass and returns: there is no further render, receive or
\* update, the loop is at the pass, at the quit check behind it or has
\* returned, and it has returned after exactly one pass.
C6_QuitThenOnePassAndReturn ==
  atQuit # None =>
    LET s == atQuit[1]
    IN /\ renders = s.renders
       /\ nrecv = s.nrecv
       /\ Len(updates) = s.updates
       /\ pc \in {"reconcile", "quit", "done"}
       /\ passes = s.passes + (IF pc = "reconcile" THEN 0 ELSE 1)

\* run has returned after update raised the quit flag.
C6_Witness ==
  /\ atQuit # None
  /\ pc = "done"
  /\ passes = atQuit[1].passes + 1

\* C7: when run has returned, every handle of the running set has its
\* flag raised.
C7_AllStoppedAtReturn ==
  pc = "done" => \A h \in Ids(subs) : raised(handles[h].halt_flag)

\* match_msg over a sequence of messages, dropping the None results.
RECURSIVE Delivered(_, _)
Delivered(m, messages) ==
  IF messages = <<>> THEN <<>>
  ELSE match_msg(m, Head(messages)) \o Delivered(m, Tail(messages))

\* C8: the messages passed to update, followed by the one the loop holds
\* for its next update call, are the messages it received, which are the
\* oldest enqueued ones in enqueue order, each once, without the raw
\* events map_event maps to None; the channel holds the rest in order.
C8_UpdatesInEnqueueOrder ==
  /\ nrecv <= Len(log)
  /\ updates \o (IF pc = "update" THEN msg ELSE <<>>)
       = Delivered(model, SubSeq(log, 1, nrecv))
  /\ receiverAlive => chan = SubSeq(log, nrecv + 1, Len(log))

\* Two different messages went through update, or one did and an ignored
\* raw event did not.
C8_Witness ==
  /\ nrecv = 2
  /\ \/ Len(updates) = 2 /\ updates[1] # updates[2]
     \/ Len(updates) = 1 /\ log[1].tag = "CrosstermEvent"

\* C9: from the receipt of a raw event that map_event maps to None to the
\* next render, update is not called, the model does not change, no command
\* is dispatched, nothing more is received and run does not return: the next
\* step that touches the terminal is the render, which is handed the
\* unchanged model.
C9_IgnoredEventOnlyRenders ==
  [][ (sinceNone \/ sinceNone') =>
        /\ updates' = updates
        /\ renders' = renders => model' = model
        /\ Len(tasks') = Len(tasks)
        /\ quit_program' = quit_program
        /\ pc' \notin {"done"}
        /\ sinceNone => nrecv' = nrecv
        /\ (sinceNone /\ ~sinceNone') => renders' = renders + 1
    ]_vars

\* An ignored raw event has been followed by a render.
C9_Witness ==
  /\ nrecv >= 1
  /\ log[nrecv].tag = "CrosstermEvent"
  /\ map_event(model, log[nrecv].v) = None
  /\ ~sinceNone
  /\ pc = "recv"

\* C10: between the receipt of a raw event that map_event maps to None and
\* the next render no reconciliation pass runs.
C10_NoPassForIgnoredEvent ==
  [][ sinceNone => passes' = passes ]_vars

\* The loop is behind the dispatch of the latest command it obtained.
Dispatched == pc \in {"draw", "recv", "update", "done", "error"}

\* C11: once the loop is past the dispatch point, or has returned, there
\* is one command thread for every present command init and update have
\* returned, and none for an absent one.
C11_EveryCommandDispatched ==
  Dispatched => Len(tasks) = ncmds

\* C12 as claimed: whenever run has ended, update had raised the quit flag.
C12_EndsOnlyAfterQuit ==
  pc \in {"done", "error"} => atQuit # None

\* C12: run returns Ok only after an update call has raised the quit flag;
\* the one other way run ends is the return of the error of a failed draw.
C12_OkOnlyAfterQuitErrOnlyAfterDraw ==
  /\ pc = "done" => (atQuit # None /\ quit_program)
  /\ pc = "error" => draw_err

\* run has returned Ok.
C12_Witness ==
  /\ pc = "done"
  /\ atQuit # None

\* C13: a failed draw makes run return at once, and after that the loop
\* receives nothing, calls neither update nor draw, makes no pass and
\* dispatches no command.
C13_DrawErrorReturns ==
  [][ /\ draw_err' => pc' = "error"
      /\ pc = "error" =>
           /\ pc' = "error"
           /\ nrecv' = nrecv
           /\ updates' = updates
           /\ passes' = passes
           /\ renders' = renders
           /\ Len(tasks') = Len(tasks)
    ]_vars

\* A draw failed while a message was waiting and a producer sent after it.
C13_Witness ==
  /\ pc = "error"
  /\ draw_err
  /\ Len(log) > nrecv
  /\ nsent > Len(log)

\* A worker thread panics in this step.
WorkerDies ==
  \/ \E h \in DOMAIN handles :
       handles[h].state = "running" /\ handles'[h].state = "panicked"
  \/ \E t \in DOMAIN tasks :
       tasks[t] = "running" /\ tasks'[t] = "panicked"

\* The handles a step adds to the table whose descriptor is equal to d.
StartedFor(d) ==
  { k \in DOMAIN handles' \ DOMAIN handles : equals_a(handles'[k].sub, d) }

\* C14: the panic of a worker changes nothing of the loop and takes nothing
\* out of the channel; a handle whose worker has panicked is never started
\* again and its worker sends nothing; a pass counts it as running like any
\* other handle, so while its descriptor is desired the pass starts only as
\* many workers for the descriptor as the list has elements beyond the
\* running handles.
C14_DeadWorkerLeftAlone ==
  [][ /\ WorkerDies => (UNCHANGED loopVars /\ chan' = chan /\ log' = log)
      /\ \A h \in DOMAIN handles :
           handles[h].state = "panicked" =>
             /\ handles'[h].state = "panicked"
             /\ handles'[h].starts = handles[h].starts
             /\ ~SubSend(h)
      /\ (pc = "reconcile" /\ pc' # "reconcile") =>
           \A h \in Ids(subs) :
             LET d == descOf(h)
                 want == Count(d, subscriptions(model))
                 have == Count(d, DescsOf(subs))
             IN (handles[h].state = "panicked" /\ want >= 1) =>
                  Cardinality(StartedFor(d)) =
                    IF want > have THEN want - have ELSE 0
    ]_vars

\* A handle whose worker panicked is still in the running set after a pass
\* that wanted its descriptor, and update has been called with a message
\* that was enqueued after the panic.
C14_Witness ==
  /\ pc = "quit"
  /\ Len(updates) >= 1
  /\ \E h \in Ids(subs) \cap Ids(old_subs) :
       /\ handles[h].state = "panicked"
       /\ handles[h].died_at >= 0
       /\ handles[h].died_at < nrecv
       /\ log[nrecv].tag = "UserEvent"
       /\ InList(descOf(h), new_subscriptions)

\* C15: after init, only a step of update changes the model.
C15_ModelChangesOnlyInUpdate ==
  [][ (pc # "init" /\ model' # model) => pc = "update" ]_vars

\* C16: every receive, and so every update call, is followed by exactly
\* one pass before the next render, and at every render the pass has been
\* computed from the model that is rendered: the running descriptors are
\* those of subscriptions for it.
C16_PassBetweenUpdateAndRender ==
  /\ passes = nrecv - (IF pc \in {"update", "reconcile"} THEN 1 ELSE 0)
  /\ pc = "draw" =>
       /\ new_subscriptions = subscriptions(model)
       /\ \A d \in Descs :
            Count(d, DescsOf(subs)) = Count(d, subscriptions(model))

\* The loop is about to render after an update whose pass changed the
\* running set.
C16_Witness ==
  /\ pc = "draw"
  /\ Len(updates) = passes
  /\ passes >= 1
  /\ NewIds # {}
  /\ Ids(old_subs) \ Ids(subs) # {}

\* C17: at every point of the loop but the channel receive, the pass and
\* the return after quit included, the loop thread has a step to take
\* whatever the workers do, stopped ones that are still running included;
\* at the receive it waits for a message only.
C17_OnlyRecvWaits ==
  /\ pc = "handle" => ENABLED HandleCmd
  /\ pc = "draw" => ENABLED Draw
  /\ pc = "update" => ENABLED Update
  /\ pc = "reconcile" => ENABLED Reconcile
  /\ pc = "quit" => ENABLED QuitCheck
  /\ (pc = "recv" /\ chan # <<>>) => ENABLED Recv

\* run has returned after a pass that stopped a handle, and the worker of
\* a stopped handle is still running, next to one that was never stopped.
C17_Witness ==
  /\ pc = "done"
  /\ \E h \in DOMAIN handles :
       /\ raised(handles[h].halt_flag)
       /\ handles[h].state = "running"
  /\ \E h \in DOMAIN handles :
       /\ ~raised(handles[h].halt_flag)
       /\ handles[h].state = "running"

\* The place among the messages passed to update of the i-th message
\* of log.
placeOf(i) == Len(Delivered(model, SubSeq(log, 1, i)))

\* C18: a message a subscription worker sent after its halt flag was
\* raised is a user message like any other: it waits in the channel at
\* its place and, once received, is the message update is called with.
C18_LateMessageReachesUpdate ==
  \A i \in late :
    /\ log[i] = UserEvent("s")
    /\ (i > nrecv /\ receiverAlive) => chan[i - nrecv] = log[i]
    /\ (i = nrecv /\ pc = "update") => msg = Some(log[i].v)
    /\ (i <= nrecv /\ ~(i = nrecv /\ pc = "update")) =>
         /\ placeOf(i) \in 1..Len(updates)
         /\ updates[placeOf(i)] = log[i].v

\* A stopped handle's worker has sent a message after the stop, and
\* update has been called with it.
C18_Witness ==
  \E i \in late :
    /\ i <= nrecv
    /\ placeOf(i) \in 1..Len(updates)
    /\ pc \in {"reconcile", "quit", "handle", "draw", "recv"}

\* C19: from its initialization to its return run holds its own sender,
\* so whenever the loop is at the channel receive a sender exists and the
\* receive does not fail: it never panics there.
C19_OwnSenderAliveAtRecv ==
  /\ pc # "panic"
  /\ pc \in {"handle", "draw", "recv", "update", "reconcile", "quit"} =>
       user_sender /\ liveSenders >= 1
  /\ pc = "recv" => recv(chan, liveSenders) # "Err"

\* The loop waits at the receive after at least one message, the channel
\* is empty and the only sender left is the one run holds.
C19_Witness ==
  /\ pc = "recv"
  /\ chan = <<>>
  /\ nrecv >= 1
  /\ liveSenders = 1
  /\ user_sender

\* C20: once run has started its poller, the poller is running in every
\* state, after the quit flag was raised and after run has returned too.
C20_PollerNeverTerminates ==
  pc # "init" => poller = "running"

====
